---- MODULE Spec2Model ----
(***************************************************************************)
(* Model of trainning/train_quantize_export.py: the post-training          *)
(* quantization of a two-layer perceptron (affine -> ReLU -> affine), the  *)
(* export of the quantized parameters as hex memory files, and the         *)
(* integer-only reference inference (forward_quantized).                   *)
(*                                                                         *)
(* The script runs top to bottom; every numbered section of the script is  *)
(* one action, taken in the order of the program counter pc.  The data    *)
(* set (calibration batch, test sample) is drawn in Init, the parameters   *)
(* that training leaves in the model are drawn by Train.                   *)
(*                                                                         *)
(* The elements of a float32 tensor are kept as the exact rationals        *)
(* [n |-> numerator, d |-> denominator] they stand for, in lowest terms    *)
(* with d > 0.  A Python float (every scale of the script) is a double:    *)
(* a record [m, e] that stands for m * 2^e, m being a 53-bit significand   *)
(* held as a sequence of 15-bit limbs.  Every quotient the script rounds   *)
(* to an integer is a float32 division of a tensor element by a Python     *)
(* scalar: the scalar is converted from double to float32                  *)
(* (Float32OfDouble) and the quotient is a float32 (Float32Div).  The      *)
(* products and quotients of scales are double operations (Float64Mul,     *)
(* Float64Div).  The float pass of the calibration multiplies and adds in  *)
(* float32 (Float32Mul, Float32Add).                                       *)
(* Integers of the program keep their width: int8 values are clamped by    *)
(* clamp_int8, int32 sums wrap modulo 2^32 (Add32).  TLC's own integers    *)
(* are 32-bit and never wrap (an overflow stops TLC), so every wrap below  *)
(* is computed explicitly.                                                 *)
(***************************************************************************)
EXTENDS Integers, Sequences, FiniteSets, TLC

VARIABLES
    pc,               \* the section of the script that runs next
    defined,          \* module-level names assigned so far
    fc1_weight, fc1_bias, fc2_weight, fc2_bias,  \* the trained float model
    x_flat,           \* calibration batch, one flattened image per row
    x0, test_label,   \* the flattened test sample and its label
    h1_f,             \* float hidden activations of the calibration batch
    scale_x, scale_w1, scale_w2, scale_h1_target,
    W1_q, b1_q,
    acc1_scale, M1, shift1, scale_h1_eff,
    in2_scale, W2_q, b2_q, shift2,
    files,            \* exported artifacts: file name -> lines -> tokens
    x0_q,
    acc1_q, h1_q, acc2_q, pred_q,   \* results of forward_quantized
    mm_layer, mm_w, mm_x, mm_k, mm_acc, mm_sum, mm_bias, mm_out
                      \* one accumulator of int8_mm_int32_acc, term by term

vars == <<pc, defined, fc1_weight, fc1_bias, fc2_weight, fc2_bias, x_flat, x0,
          test_label, h1_f, scale_x, scale_w1, scale_w2, scale_h1_target, W1_q, b1_q,
          acc1_scale, M1, shift1, scale_h1_eff, in2_scale, W2_q, b2_q, shift2,
          files, x0_q, acc1_q, h1_q, acc2_q, pred_q,
          mm_layer, mm_w, mm_x, mm_k, mm_acc, mm_sum, mm_bias, mm_out>>

floatVars == <<fc1_weight, fc1_bias, fc2_weight, fc2_bias, x_flat, x0, test_label>>
calibVars == <<h1_f, scale_x, scale_w1, scale_w2, scale_h1_target>>
quant1Vars == <<W1_q, b1_q>>
shiftVars == <<acc1_scale, M1, shift1, scale_h1_eff>>
quant2Vars == <<in2_scale, W2_q, b2_q, shift2>>
fwdVars == <<acc1_q, h1_q, acc2_q, pred_q>>
mmVars == <<mm_layer, mm_w, mm_x, mm_k, mm_acc, mm_sum, mm_bias, mm_out>>

-----------------------------------------------------------------------------
(* Dimensions.  INPUT and HIDDEN are the program's; the pipeline is run   *)
(* on tensors of the reduced dimensions InDim, HidDim, OutDim.             *)

INPUT == 784
HIDDEN == 32

InDim == 2
HidDim == 2
OutDim == 3

INT8_MIN == -128
INT8_MAX == 127
INT32_MAX == 2147483647
INT32_MIN == -INT32_MAX - 1

-----------------------------------------------------------------------------
(* Exact rational arithmetic.                                              *)

Abs(a) == IF a < 0 THEN -a ELSE a

RECURSIVE GCD(_, _)
GCD(a, b) == IF b = 0 THEN a ELSE GCD(b, a % b)

Rat(n, d) ==
    LET s == IF d < 0 THEN -1 ELSE 1
        g == GCD(Abs(n), Abs(d))
    IN  [n |-> (s * n) \div g, d |-> (s * d) \div g]

RZero == [n |-> 0, d |-> 1]
ROne == [n |-> 1, d |-> 1]
RInt(k) == [n |-> k, d |-> 1]

RAbs(a) == [n |-> Abs(a.n), d |-> a.d]

\* the sign of a/b - c/d for a, c >= 0 and b, d > 0, by continued fractions
\* (no product is formed, so no intermediate value outgrows its operands)
RECURSIVE FracCmp(_, _, _, _)
FracCmp(a, b, c, d) ==
    LET qa == a \div b
        qc == c \div d
        ra == a % b
        rc == c % d
    IN  IF qa # qc THEN (IF qa < qc THEN -1 ELSE 1)
        ELSE IF ra = 0 /\ rc = 0 THEN 0
        ELSE IF ra = 0 THEN -1
        ELSE IF rc = 0 THEN 1
        ELSE -FracCmp(b, ra, d, rc)

RCmp(a, b) ==
    IF a.n < 0 /\ b.n >= 0 THEN -1
    ELSE IF a.n >= 0 /\ b.n < 0 THEN 1
    ELSE IF a.n >= 0 THEN FracCmp(a.n, a.d, b.n, b.d)
    ELSE FracCmp(-b.n, b.d, -a.n, a.d)
RLe(a, b) == RCmp(a, b) <= 0
RPos(a) == a.n > 0

RECURSIVE Pow2(_)
Pow2(k) == IF k = 0 THEN 1 ELSE 2 * Pow2(k - 1)

-----------------------------------------------------------------------------
(* Tensors: a vector is a sequence, a matrix a sequence of rows.           *)

Entries(t) == UNION {{t[i][j] : j \in DOMAIN t[i]} : i \in DOMAIN t}

RMaxOf(S) == CHOOSE m \in S : \A v \in S : RLe(v, m)

\* nn.ReLU on a float
RRelu(a) == IF RPos(a) THEN a ELSE RZero

-----------------------------------------------------------------------------
(* 3) Helpers of the script.                                               *)

\* faulty variant of Round: the floor
RoundDown(r) == r.n \div r.d

\* faulty variant of Round: halves go away from zero
RoundHalfAway(r) ==
    LET f == r.n \div r.d
        twice == 2 * (r.n - f * r.d)
    IN  IF twice < r.d THEN f
        ELSE IF twice > r.d THEN f + 1
        ELSE IF f >= 0 THEN f + 1 ELSE f

\* torch.round / Tensor.round: round half to even
Round(r) ==
    LET f == r.n \div r.d
        twice == 2 * (r.n - f * r.d)
    IN  IF twice < r.d THEN f
        ELSE IF twice > r.d THEN f + 1
        ELSE IF f % 2 = 0 THEN f ELSE f + 1

\* the number of bits of a positive integer
RECURSIVE BitLen(_)
BitLen(k) == IF k = 0 THEN 0 ELSE 1 + BitLen(k \div 2)

\* a positive fraction n/d < 1 doubled t times until it is in [1/2, 1): the
\* numerator reached and t (n + n < d, so nothing outgrows d)
RECURSIVE Normalise(_, _, _)
Normalise(n, d, t) ==
    IF n >= d - n THEN [n |-> n, t |-> t] ELSE Normalise(n + n, d, t + 1)

\* the first k binary digits of rem/d (0 <= rem < d) as an integer, and the
\* remainder left after them; the doubling 2 rem is formed as rem - (d - rem)
\* or rem + rem, whichever stays below d
RECURSIVE FracBits(_, _, _)
FracBits(rem, d, k) ==
    IF k = 0 THEN [bits |-> 0, rem |-> rem]
    ELSE LET bit == IF rem >= d - rem THEN 1 ELSE 0
             rem2 == IF bit = 1 THEN rem - (d - rem) ELSE rem + rem
             rest == FracBits(rem2, d, k - 1)
         IN  [bits |-> bit * Pow2(k - 1) + rest.bits, rem |-> rest.rem]

\* A float32 is a record [m, e] that stands for m * 2^e, with
\* 2^23 <= |m| < 2^24, or m = 0 and e = 0 (subnormals, infinities and NaN
\* do not occur in the model).
Float32Zero == [m |-> 0, e |-> 0]

\* sig * 2^e with 2^23 <= sig <= 2^24, in canonical form
Float32Canon(sig, e) ==
    IF sig = Pow2(24) THEN [m |-> Pow2(23), e |-> e + 1] ELSE [m |-> sig, e |-> e]

\* k, or k + 1 when the remainder rem/d left below k is above one half, or
\* is one half and k is odd (round to nearest, ties to even)
NearestSig(k, rem, d) ==
    IF rem > d - rem \/ (rem = d - rem /\ k % 2 = 1) THEN k + 1 ELSE k

\* the float32 nearest to (ip + rem/d) * 2^k for ip >= 0 and 0 <= rem < d,
\* not both zero
Float32Mixed(ip, rem, d, k) ==
    LET e0 == BitLen(ip) - 1
    IN  IF ip = 0
        THEN LET nz == Normalise(rem, d, 0)
                 fb == FracBits(nz.n, d, 24)
             IN  Float32Canon(NearestSig(fb.bits, fb.rem, d), k - 24 - nz.t)
        ELSE IF e0 < 23
        THEN LET j == 23 - e0
                 fb == FracBits(rem, d, j)
             IN  Float32Canon(NearestSig(ip * Pow2(j) + fb.bits, fb.rem, d),
                              k - j)
        ELSE LET step == Pow2(e0 - 23)
             IN  Float32Canon(NearestSig(ip \div step, (ip % step) * d + rem,
                                         d * step),
                              k + e0 - 23)

\* the float32 nearest to (n/d) * 2^k for n, d > 0
Float32Pos(n, d, k) == Float32Mixed(n \div d, n % d, d, k)

\* the element of a float32 tensor that holds the real r; also a Python
\* float converted to float32
Float32(r) ==
    IF r.n = 0 THEN Float32Zero
    ELSE IF r.n > 0 THEN Float32Pos(r.n, r.d, 0)
    ELSE LET p == Float32Pos(-r.n, r.d, 0) IN [m |-> -p.m, e |-> p.e]

\* a / b on float32 elements: the exact quotient rounded to float32
Float32Div(a, b) ==
    IF a.m = 0 THEN Float32Zero
    ELSE LET p == Float32Pos(Abs(a.m), Abs(b.m), a.e - b.e)
         IN  IF (a.m < 0) = (b.m < 0) THEN p ELSE [m |-> -p.m, e |-> p.e]

\* Tensor.round() / torch.round on a float32 element, as an integer (the
\* inputs of this model keep every rounded value below 2^31).  With
\* e < -25 the value is below 1/4 in magnitude and rounds to 0.
RoundFloat32(a) ==
    IF a.e >= 0 THEN a.m * Pow2(a.e)
    ELSE IF a.e < -25 THEN 0
    ELSE Round(Rat(a.m, Pow2(-a.e)))

\* a * b on float32 elements: the exact product rounded to float32.  The
\* 48-bit product of the significands is formed in two 24-bit halves from
\* the 12-bit halves of each significand.
Float32Mul(a, b) ==
    IF a.m = 0 \/ b.m = 0 THEN Float32Zero
    ELSE LET x == Abs(a.m)
             y == Abs(b.m)
             xh == x \div 4096
             xl == x % 4096
             yh == y \div 4096
             yl == y % 4096
             mid == xh * yl + xl * yh
             low == (mid % 4096) * 4096 + xl * yl
             hi == xh * yh + (mid \div 4096) + (low \div Pow2(24))
             lo == low % Pow2(24)
             p == IF hi >= Pow2(23)
                  THEN Float32Canon(NearestSig(hi, lo, Pow2(24)),
                                    a.e + b.e + 24)
                  ELSE Float32Canon(NearestSig(2 * hi + (lo \div Pow2(23)),
                                               lo % Pow2(23), Pow2(23)),
                                    a.e + b.e + 23)
         IN  IF (a.m < 0) = (b.m < 0) THEN p ELSE [m |-> -p.m, e |-> p.e]

\* a + b for float32 elements with |a| >= |b| > 0: the exact sum rounded to
\* float32, with the sign of a.  More than 25 binary places below a, b is
\* under a quarter of the last place of a and the sum rounds to a.
Float32AddOrdered(a, b) ==
    LET diff == a.e - b.e
        D == Pow2(diff)
        x == Abs(a.m)
        y == Abs(b.m)
        r == y % D
        same == (a.m < 0) = (b.m < 0)
        ip == IF same THEN x + (y \div D)
              ELSE x - (y \div D) - (IF r = 0 THEN 0 ELSE 1)
        rem == IF same \/ r = 0 THEN r ELSE D - r
        p == Float32Mixed(ip, rem, D, a.e)
    IN  IF diff > 25 THEN a
        ELSE IF ip = 0 /\ rem = 0 THEN Float32Zero
        ELSE IF a.m < 0 THEN [m |-> -p.m, e |-> p.e] ELSE p

\* a + b on float32 elements
Float32Add(a, b) ==
    IF a.m = 0 THEN b
    ELSE IF b.m = 0 THEN a
    ELSE IF a.e > b.e \/ (a.e = b.e /\ Abs(a.m) >= Abs(b.m))
        THEN Float32AddOrdered(a, b)
    ELSE Float32AddOrdered(b, a)

\* a float32 significand and exponent with the trailing zero bits of the
\* significand moved into the exponent, up to exponent 0
RECURSIVE Float32Strip(_, _)
Float32Strip(m, e) ==
    IF e < 0 /\ m % 2 = 0 /\ m # 0 THEN Float32Strip(m \div 2, e + 1)
    ELSE [m |-> m, e |-> e]

\* Tensor.item(): the real value of a float32 element (exact; a Python float
\* holds every float32)
Float32Value(a) ==
    LET s == Float32Strip(a.m, a.e)
    IN  IF s.e >= 0 THEN RInt(s.m * Pow2(s.e)) ELSE Rat(s.m, Pow2(-s.e))

\* one row of x W^T in float32: the products are rounded to float32 and
\* summed in index order, every partial sum rounded to float32.  (A BLAS
\* kernel may fuse a product with its addition or sum in another order; on
\* the tensors of the pipeline every product and sum is exact and all
\* orders agree.)
RECURSIVE Float32Dot(_, _, _)
Float32Dot(w, x, k) ==
    IF k = 0 THEN Float32Zero
    ELSE Float32Add(Float32Dot(w, x, k - 1),
                    Float32Mul(Float32(w[k]), Float32(x[k])))

\* model.act(model.fc1(x_flat)): relu(x W^T + b) for every row of the
\* batch, in float32
FloatHidden(W, b, X) ==
    [r \in DOMAIN X |->
        [i \in DOMAIN W |->
            RRelu(Float32Value(Float32Add(Float32Dot(W[i], X[r], Len(X[r])),
                                          Float32(b[i]))))]]

-----------------------------------------------------------------------------
(* Python floats.  A double has a 53-bit significand, more than a 32-bit   *)
(* integer holds: a natural number of any size is the sequence of its      *)
(* base-2^15 digits (limbs), least significant first, without leading      *)
(* zero limbs; zero is the empty sequence.                                 *)

Base == Pow2(15)

RECURSIVE BigOf(_)
BigOf(k) == IF k = 0 THEN <<>> ELSE <<k % Base>> \o BigOf(k \div Base)

\* the integer a stands for (for a below 2^31)
RECURSIVE BigInt(_)
BigInt(a) == IF a = <<>> THEN 0 ELSE a[1] + Base * BigInt(Tail(a))

Limb(a, i) == IF i <= Len(a) THEN a[i] ELSE 0

RECURSIVE BigTrim(_)
BigTrim(a) ==
    IF a # <<>> /\ a[Len(a)] = 0 THEN BigTrim(SubSeq(a, 1, Len(a) - 1)) ELSE a

RECURSIVE BigAddFrom(_, _, _, _)
BigAddFrom(a, b, i, c) ==
    IF i > Len(a) /\ i > Len(b) THEN (IF c = 0 THEN <<>> ELSE <<c>>)
    ELSE LET s == Limb(a, i) + Limb(b, i) + c
         IN  <<s % Base>> \o BigAddFrom(a, b, i + 1, s \div Base)

BigAdd(a, b) == BigAddFrom(a, b, 1, 0)

RECURSIVE BigSubFrom(_, _, _, _)
BigSubFrom(a, b, i, c) ==
    IF i > Len(a) THEN <<>>
    ELSE LET s == Limb(a, i) - Limb(b, i) - c
         IN  <<s % Base>> \o BigSubFrom(a, b, i + 1, IF s < 0 THEN 1 ELSE 0)

\* a - b for a >= b
BigSub(a, b) == BigTrim(BigSubFrom(a, b, 1, 0))

RECURSIVE BigCmpFrom(_, _, _)
BigCmpFrom(a, b, i) ==
    IF i = 0 THEN 0
    ELSE IF a[i] # b[i] THEN (IF a[i] < b[i] THEN -1 ELSE 1)
    ELSE BigCmpFrom(a, b, i - 1)

\* the sign of a - b
BigCmp(a, b) ==
    IF Len(a) # Len(b) THEN (IF Len(a) < Len(b) THEN -1 ELSE 1)
    ELSE BigCmpFrom(a, b, Len(a))

RECURSIVE BigTimesFrom(_, _, _, _)
BigTimesFrom(a, k, i, c) ==
    IF i > Len(a) THEN (IF c = 0 THEN <<>> ELSE <<c>>)
    ELSE LET s == a[i] * k + c
         IN  <<s % Base>> \o BigTimesFrom(a, k, i + 1, s \div Base)

\* a * k for one limb k
BigTimes(a, k) == IF k = 0 THEN <<>> ELSE BigTimesFrom(a, k, 1, 0)

\* a * Base^n
BigLimbs(a, n) == IF a = <<>> \/ n = 0 THEN a ELSE [i \in 1..n |-> 0] \o a

RECURSIVE BigMulFrom(_, _, _)
BigMulFrom(a, b, j) ==
    IF j > Len(b) THEN <<>>
    ELSE BigAdd(BigLimbs(BigTimes(a, b[j]), j - 1), BigMulFrom(a, b, j + 1))

BigMul(a, b) == BigMulFrom(a, b, 1)

\* a * 2^n
BigShl(a, n) == BigLimbs(BigTimes(a, Pow2(n % 15)), n \div 15)

BigBitLen(a) ==
    IF a = <<>> THEN 0 ELSE 15 * (Len(a) - 1) + BitLen(a[Len(a)])

BigOdd(a) == a # <<>> /\ a[1] % 2 = 1

BigOne == <<1>>

\* the largest limb g with g * t <= n, for lo * t <= n < hi * t, by bisection
RECURSIVE BigDigit(_, _, _, _)
BigDigit(n, t, lo, hi) ==
    IF hi - lo = 1 THEN lo
    ELSE LET mid == (lo + hi) \div 2
         IN  IF BigCmp(BigTimes(t, mid), n) <= 0 THEN BigDigit(n, t, mid, hi)
             ELSE BigDigit(n, t, lo, mid)

\* quotient and remainder of n / d for n < d * Base^(i+1), one limb of the
\* quotient at a time
RECURSIVE BigDivLimbs(_, _, _)
BigDivLimbs(n, d, i) ==
    IF i < 0 THEN [q |-> <<>>, r |-> n]
    ELSE LET t == BigLimbs(d, i)
             g == BigDigit(n, t, 0, Base)
             rest == BigDivLimbs(BigSub(n, BigTimes(t, g)), d, i - 1)
         IN  [q |-> BigAdd(BigLimbs(BigOf(g), i), rest.q), r |-> rest.r]

\* the p-bit floating-point number nearest to (N / D) * 2^k for N, D > 0,
\* ties to the even significand: [m, e] with 2^(p-1) <= m < 2^p
RoundToBits(N, D, k, p) ==
    LET s0 == p - (BigBitLen(N) - BigBitLen(D))
        N1 == IF s0 >= 0 THEN BigShl(N, s0) ELSE N
        D0 == IF s0 >= 0 THEN D ELSE BigShl(D, -s0)
        long == BigCmp(N1, BigShl(D0, p)) >= 0
        D1 == IF long THEN BigShl(D0, 1) ELSE D0
        sh == IF long THEN s0 - 1 ELSE s0
        qr == BigDivLimbs(N1, D1, (p - 1) \div 15)
        twice == BigCmp(BigShl(qr.r, 1), D1)
        q == IF twice > 0 \/ (twice = 0 /\ BigOdd(qr.q))
             THEN BigAdd(qr.q, BigOne) ELSE qr.q
    IN  IF BigBitLen(q) > p THEN [m |-> BigShl(BigOne, p - 1), e |-> k - sh + 1]
        ELSE [m |-> q, e |-> k - sh]

\* A double is a record [m, e] that stands for m * 2^e with
\* 2^52 <= m < 2^53, or m = 0 and e = 0 (subnormals, infinities and NaN do
\* not occur in the model).
Float64Zero == [m |-> <<>>, e |-> 0]

Float64Pos(a) == a.m # <<>>

\* the Python float nearest to the positive rational r: a float literal, or
\* the value of a float32 (which a double holds exactly)
Double(r) == RoundToBits(BigOf(r.n), BigOf(r.d), 0, 53)

\* a * b on Python floats: the exact product rounded to double
Float64Mul(a, b) ==
    IF a.m = <<>> \/ b.m = <<>> THEN Float64Zero
    ELSE RoundToBits(BigMul(a.m, b.m), BigOne, a.e + b.e, 53)

\* a / b on Python floats: the exact quotient rounded to double
Float64Div(a, b) ==
    IF a.m = <<>> THEN Float64Zero
    ELSE RoundToBits(a.m, b.m, a.e - b.e, 53)

\* a Python float converted to float32: rounded to 24 bits
Float32OfDouble(a) ==
    IF a.m = <<>> THEN Float32Zero
    ELSE LET r == RoundToBits(a.m, BigOne, a.e, 24)
         IN  [m |-> BigInt(r.m), e |-> r.e]

\* t / s for an element t of a float32 tensor and a Python float s: s is
\* converted to float32 and the division is a float32 division
DivByScalar(t, s) == Float32Div(Float32(t), Float32OfDouble(s))

\* faulty variant of calc_scale_sym: the divisor is 128, the size of the
\* negative half of the int8 range
calc_scale_sym128(t) ==
    LET m == RMaxOf({RAbs(v) : v \in Entries(t)})
    IN  IF RPos(m) THEN Float64Div(Double(m), Double(RInt(128)))
        ELSE Double(ROne)

\* calc_scale_sym(t, int8_max=127): t.abs().max().item() / 127 as a Python
\* float, or 1.0 for an all-zero t
calc_scale_sym(t) ==
    LET m == RMaxOf({RAbs(v) : v \in Entries(t)})
    IN  IF RPos(m) THEN Float64Div(Double(m), Double(RInt(INT8_MAX)))
        ELSE Double(ROne)

\* the int8 wrap of a value: what a conversion to int8 without a clamp, or
\* int8 arithmetic, leaves
clamp_int8_wrap(a) == ((a + 128) % 256) - 128

\* torch.clamp(a, -128, 127).to(torch.int8) on one element

clamp_int8(a) ==
    IF a < INT8_MIN THEN INT8_MIN ELSE IF a > INT8_MAX THEN INT8_MAX ELSE a

\* Tensor.to(torch.int32) after torch.round: the value itself while it fits
\* 32 bits (the inputs of this model keep every rounded bias in range)
ToInt32(a) == a

-----------------------------------------------------------------------------
(* 5) quantize_linear(linear, in_scale, w_scale) -> (Wq, bq)               *)

\* faulty variant of RoundFloat32: halves go away from zero
RoundFloat32HalfAway(a) ==
    IF a.e >= 0 THEN a.m * Pow2(a.e)
    ELSE IF a.e < -25 THEN 0
    ELSE RoundHalfAway(Rat(a.m, Pow2(-a.e)))

\* faulty variant of QuantWeight: rounds halves away from zero
QuantWeightHalfAway(w, w_scale) ==
    clamp_int8(RoundFloat32HalfAway(DivByScalar(w, w_scale)))

\* Wq = clamp_int8((Wf / w_scale).round()), one element

QuantWeight(w, w_scale) == clamp_int8(RoundFloat32(DivByScalar(w, w_scale)))

\* bias_scale = in_scale * w_scale, a product of Python floats;
\* bq = torch.round(bf / bias_scale).to(torch.int32), one element
QuantBias(b, in_scale, w_scale) ==
    LET bias_scale == Float64Mul(in_scale, w_scale)
    IN  ToInt32(RoundFloat32(DivByScalar(b, bias_scale)))

quantize_linear(Wf, bf, in_scale, w_scale) ==
    [Wq |-> [i \in DOMAIN Wf |->
                [j \in DOMAIN Wf[i] |-> QuantWeight(Wf[i][j], w_scale)]],
     bq |-> [i \in DOMAIN bf |-> QuantBias(bf[i], in_scale, w_scale)]]

-----------------------------------------------------------------------------
(* 6) The right shift of layer 1.                                          *)

\* the significand of the last double below 2^(1/2):
\* 2^52 * sqrt(2) = 6369051672525772.73...
Sqrt2Sig == <<15308, 19710, 633, 181>>

\* Sqrt2Sig + off
Sqrt2SigPlus(off) ==
    IF off >= 0 THEN BigAdd(Sqrt2Sig, BigOf(off)) ELSE BigSub(Sqrt2Sig, BigOf(-off))

\* The doubles 2^k * n / 2^52 whose logarithm math.log2 returns as exactly
\* k + 1/2 are those with the significand n in
\* Sqrt2Sig + TieFrom[b + 1] .. Sqrt2Sig + TieTo[b + 1], where b is the
\* number of bits of the integer part of |k + 1/2|.  math.log2 returns
\* the double nearest to the logarithm; that is k + 1/2 when the
\* logarithm is within half a unit in the last place of it, 2^(b - 54),
\* and the logarithm moves by 1 / (n ln 2) per unit of n: n is within
\* 2^(b - 2) * sqrt(2) * ln(2) = 0.2451 * 2^b of 2^52 * sqrt(2) =
\* Sqrt2Sig + 0.7310.  The exponent of a double gives b <= 10.
TieFrom == <<1, 1, 0, -1, -3, -7, -15, -30, -62, -124, -250>>
TieTo == <<0, 1, 1, 2, 4, 8, 16, 31, 63, 126, 251>>

\* round(math.log2(M)) for a Python float M > 0 with 2^k <= M < 2^(k+1):
\* round() sends a double that is exactly k + 1/2 to the even one of k and
\* k + 1, and any other double to the nearer of them.
RoundLog2(M) ==
    LET k == M.e + 52
        b == BitLen(IF k >= 0 THEN k ELSE -k - 1)
        lo == Sqrt2SigPlus(TieFrom[b + 1])
        hi == Sqrt2SigPlus(TieTo[b + 1])
    IN  IF BigCmp(M.m, lo) < 0 THEN k
        ELSE IF BigCmp(M.m, hi) > 0 THEN k + 1
        ELSE IF k % 2 = 0 THEN k ELSE k + 1

\* M1 = acc1_scale / (scale_h1_target if scale_h1_target > 0 else 1.0)
Multiplier(s_acc, s_target) ==
    Float64Div(s_acc, IF Float64Pos(s_target) THEN s_target ELSE Double(ROne))

\* faulty variant of ShiftOf: without max(0, ...)
ShiftOfUnclamped(M) == IF Float64Pos(M) THEN RoundLog2(M) ELSE 0

\* shift1 = max(0, int(round(math.log2(M1)))) if M1 > 0 else 0

ShiftOf(M) ==
    IF Float64Pos(M) THEN (IF RoundLog2(M) > 0 THEN RoundLog2(M) ELSE 0) ELSE 0

\* acc1_scale / (2**shift1): a division by a power of two, exact
EffectiveScale(s_acc, shift) == [m |-> s_acc.m, e |-> s_acc.e - shift]

-----------------------------------------------------------------------------
(* 7) save_mem_int8 / save_mem_int32: hex tokens.  A token is the sequence *)
(* of its characters.                                                      *)

HexDigit == <<"0", "1", "2", "3", "4", "5", "6", "7",
              "8", "9", "a", "b", "c", "d", "e", "f">>

\* the digits of format(u, "x") for u >= 0, most significant first
RECURSIVE HexOf(_)
HexOf(u) ==
    IF u < 16 THEN <<HexDigit[u + 1]>>
    ELSE Append(HexOf(u \div 16), HexDigit[(u % 16) + 1])

RECURSIVE ZeroPad(_, _)
ZeroPad(t, width) == IF Len(t) >= width THEN t ELSE ZeroPad(<<"0">> \o t, width)

\* format(u, "0<width>x"): zero-padded to at least width characters, the
\* sign of a negative number first and counted in the width
FormatHex(u, width) ==
    IF u >= 0 THEN ZeroPad(HexOf(u), width)
    ELSE <<"-">> \o ZeroPad(HexOf(-u), width - 1)

\* faulty variant of HexByte: without the mask, f"{int(v):02x}"
HexByteUnmasked(v) == FormatHex(v, 2)

\* f"{(int(v)&0xFF):02x}"

HexByte(v) == FormatHex(v % 256, 2)

\* f"{(int(v)&0xFFFFFFFF):08x}".  int(v) & 0xFFFFFFFF is v mod 2^32, held
\* here as its two 16-bit halves; below 2^32 the eight-digit form is the
\* four digits of the high half followed by the four digits of the low half.
HexWord(v) ==
    LET hi == (v \div 65536) % 65536
        lo == v % 65536
    IN  FormatHex(hi, 4) \o FormatHex(lo, 4)

\* save_mem_int8(path, arr2d): one line per row, the tokens of the row
save_mem_int8(arr2d) ==
    [i \in DOMAIN arr2d |-> [j \in DOMAIN arr2d[i] |-> HexByte(arr2d[i][j])]]

\* save_mem_int32(path, arr1d): one token per line
save_mem_int32(arr1d) == [i \in DOMAIN arr1d |-> <<HexWord(arr1d[i])>>]

\* sample_input.mem: one byte token per line
save_sample(xq) == [i \in DOMAIN xq |-> <<HexByte(xq[i])>>]

\* Path.write_text(f"{value}\n"): one line holding the value
write_text(value) == <<<<value>>>>

-----------------------------------------------------------------------------
(* 9) Quantized forward pass.                                              *)

\* int32 addition: the sum modulo 2^32, in [-2^31, 2^31 - 1]
Add32(a, b) ==
    IF b > 0 /\ a > INT32_MAX - b
        THEN ((a - INT32_MAX) - 1) + ((b - INT32_MAX) - 1)
    ELSE IF b < 0 /\ a < INT32_MIN - b
        THEN ((a + INT32_MAX) + 1) + ((b + INT32_MAX) + 1)
    ELSE a + b

\* faulty variant of int8_mm_step: without .to(torch.int32) the product and
\* the sum stay in int8 and wrap modulo 256
int8_mm_step_int8(acc, w, x) == clamp_int8_wrap(acc + w * x)

\* one multiply-accumulate of torch.matmul(Wq.to(torch.int32), xq.to(torch.int32))

int8_mm_step(acc, w, x) == Add32(acc, w * x)

RECURSIVE Dot32(_, _, _)
Dot32(w, x, k) ==
    IF k = 0 THEN 0 ELSE int8_mm_step(Dot32(w, x, k - 1), w[k], x[k])

\* int8_mm_int32_acc(Wq, xq); torch.matmul raises on Len(xq) # columns of Wq
MatmulDefined(Wq, xq) == \A i \in DOMAIN Wq : Len(Wq[i]) = Len(xq)

int8_mm_int32_acc(Wq, xq) == [i \in DOMAIN Wq |-> Dot32(Wq[i], xq, Len(xq))]

\* faulty variant of Shr: a logical shift, zeros entering at the top of the
\* 32-bit word
RECURSIVE ShrLogical(_, _)
ShrLogical(a, s) ==
    IF s = 0 THEN a
    ELSE IF a < 0 THEN ShrLogical(((a \div 2) + INT32_MAX) + 1, s - 1)
    ELSE ShrLogical(a \div 2, s - 1)

\* acc >> shift on an int32: an arithmetic shift, one bit at a time (torch
\* limits a count of 32 or more to the width of the word, which leaves the
\* sign: 0 or -1)

RECURSIVE Shr(_, _)
Shr(a, s) == IF s = 0 THEN a ELSE Shr(a \div 2, s - 1)

\* h1_q = maximum(clamp(acc1 >> shift1, -128, 127).to(int8), 0), one
\* element
Requant(acc, shift) ==
    LET h == clamp_int8(Shr(acc, shift))
    IN  IF h > 0 THEN h ELSE 0

\* the last maximal entry of v[1..k], 1-based
RECURSIVE ArgmaxLast(_, _)
ArgmaxLast(v, k) ==
    IF k = 1 THEN 1
    ELSE LET best == ArgmaxLast(v, k - 1)
         IN  IF v[k] >= v[best] THEN k ELSE best

\* the first maximal entry of v[1..k], 1-based
RECURSIVE ArgmaxFrom(_, _)
ArgmaxFrom(v, k) ==
    IF k = 1 THEN 1
    ELSE LET best == ArgmaxFrom(v, k - 1)
         IN  IF v[k] > v[best] THEN k ELSE best

\* faulty variant of argmax: ties go to the highest index
argmax_last(v) == ArgmaxLast(v, Len(v)) - 1

\* torch.argmax(acc2): 0-based index of the first maximal entry
argmax(v) == ArgmaxFrom(v, Len(v)) - 1

\* forward_quantized(xq_int8) -> (pred, acc1, h1_q, acc2)
forward_quantized(xq) ==
    LET mm1 == int8_mm_int32_acc(W1_q, xq)
        acc1 == [i \in DOMAIN mm1 |-> Add32(mm1[i], b1_q[i])]
        h1 == [i \in DOMAIN acc1 |-> Requant(acc1[i], shift1)]
        mm2 == int8_mm_int32_acc(W2_q, h1)
        acc2 == [i \in DOMAIN mm2 |-> Add32(mm2[i], b2_q[i])]
    IN  [pred |-> argmax(acc2), acc1 |-> acc1, h1_q |-> h1, acc2 |-> acc2]

-----------------------------------------------------------------------------
(* The script, section by section.                                         *)

CalibNames == {"h1_f", "scale_x", "scale_w1", "scale_w2", "scale_h1_target"}
Quant1Names == {"W1_q", "b1_q"}
ShiftNames == {"acc1_scale", "M1", "shift1", "scale_h1_eff"}
Quant2Names == {"in2_scale", "W2_q", "b2_q", "shift2"}
SampleNames == {"x0", "x0_q"}
FwdNames == {"pred_q", "acc1_q", "h1_q", "acc2_q"}

\* 4) calibration: one float pass and the four symmetric scales
Calibrate ==
    /\ pc = "calib"
    /\ h1_f' = FloatHidden(fc1_weight, fc1_bias, x_flat)
    /\ scale_x' = calc_scale_sym(x_flat)
    /\ scale_w1' = calc_scale_sym(fc1_weight)
    /\ scale_w2' = calc_scale_sym(fc2_weight)
    /\ scale_h1_target' = calc_scale_sym(h1_f')
    /\ defined' = defined \cup CalibNames
    /\ pc' = "quant1"
    /\ UNCHANGED <<floatVars, quant1Vars, shiftVars, quant2Vars, files, x0_q,
                   fwdVars, mmVars>>

\* 5) W1_q, b1_q = quantize_linear(model.fc1, in_scale=scale_x, w_scale=scale_w1)
QuantizeL1 ==
    /\ pc = "quant1"
    /\ LET q == quantize_linear(fc1_weight, fc1_bias, scale_x, scale_w1)
       IN  W1_q' = q.Wq /\ b1_q' = q.bq
    /\ defined' = defined \cup Quant1Names
    /\ pc' = "shift"
    /\ UNCHANGED <<floatVars, calibVars, shiftVars, quant2Vars, files, x0_q,
                   fwdVars, mmVars>>

\* 6) acc1_scale, M1, shift1, scale_h1_eff
SolveShift ==
    /\ pc = "shift"
    /\ acc1_scale' = Float64Mul(scale_x, scale_w1)
    /\ M1' = Multiplier(acc1_scale', scale_h1_target)
    /\ shift1' = ShiftOf(M1')
    /\ scale_h1_eff' = EffectiveScale(acc1_scale', shift1')
    /\ defined' = defined \cup ShiftNames
    /\ pc' = "quant2"
    /\ UNCHANGED <<floatVars, calibVars, quant1Vars, quant2Vars, files, x0_q,
                   fwdVars, mmVars>>

\* faulty variant of Layer2InputScale: the estimated target scale
Layer2InputScaleTarget == scale_h1_target

\* in2_scale = scale_h1_eff

Layer2InputScale == scale_h1_eff

\* in2_scale; W2_q, b2_q = quantize_linear(model.fc2, in2_scale, scale_w2);
\* shift2 = 0.  (h1_q_sim and acc2_scale of lines 151-153 are computed and
\* never read; they are left out.)
QuantizeL2 ==
    /\ pc = "quant2"
    /\ in2_scale' = Layer2InputScale
    /\ LET q == quantize_linear(fc2_weight, fc2_bias, in2_scale', scale_w2)
       IN  W2_q' = q.Wq /\ b2_q' = q.bq
    /\ shift2' = 0
    /\ defined' = defined \cup Quant2Names
    /\ pc' = "export"
    /\ UNCHANGED <<floatVars, calibVars, quant1Vars, shiftVars, files, x0_q,
                   fwdVars, mmVars>>

\* 7) the scale and shift files and the four memory files
ExportParams ==
    /\ pc = "export"
    /\ files' = ("scale_x.txt" :> write_text(scale_x))
             @@ ("scale_w1.txt" :> write_text(scale_w1))
             @@ ("scale_w2.txt" :> write_text(scale_w2))
             @@ ("shift1.txt" :> write_text(shift1))
             @@ ("shift2.txt" :> write_text(shift2))
             @@ ("W1.mem" :> save_mem_int8(W1_q))
             @@ ("b1.mem" :> save_mem_int32(b1_q))
             @@ ("W2.mem" :> save_mem_int8(W2_q))
             @@ ("b2.mem" :> save_mem_int32(b2_q))
             @@ files
    /\ pc' = "sample"
    /\ UNCHANGED <<defined, floatVars, calibVars, quant1Vars, shiftVars,
                   quant2Vars, x0_q, fwdVars, mmVars>>

\* x0_q = torch.clamp((x0 / scale_x).round(), -128, 127).to(torch.int8)
QuantSample(v, s) == clamp_int8(RoundFloat32(DivByScalar(v, s)))

\* 8) the test sample: quantize it, write sample_input.mem and the label
ExportSample ==
    /\ pc = "sample"
    /\ x0_q' = [i \in DOMAIN x0 |-> QuantSample(x0[i], scale_x)]
    /\ files' = ("sample_input.mem" :> save_sample(x0_q'))
             @@ ("sample_label.txt" :> write_text(test_label))
             @@ files
    /\ defined' = defined \cup SampleNames
    /\ pc' = "forward"
    /\ UNCHANGED <<floatVars, calibVars, quant1Vars, shiftVars, quant2Vars,
                   fwdVars, mmVars>>

\* 9) pred_q, acc1_q, h1_q, acc2_q = forward_quantized(x0_q), then the
\* golden prediction file.  (torch.matmul raises unless the sample has as
\* many elements as W1_q has columns; both are the size of an image.)
RunForward ==
    /\ pc = "forward"
    /\ MatmulDefined(W1_q, x0_q)
    /\ LET r == forward_quantized(x0_q)
       IN  /\ pred_q' = r.pred
           /\ acc1_q' = r.acc1
           /\ h1_q' = r.h1_q
           /\ acc2_q' = r.acc2
           /\ files' = ("golden_pred_int32.txt" :> write_text(r.pred)) @@ files
    /\ defined' = defined \cup FwdNames
    /\ pc' = "done"
    /\ UNCHANGED <<floatVars, calibVars, quant1Vars, shiftVars, quant2Vars,
                   x0_q, mmVars>>

-----------------------------------------------------------------------------
(* Inputs of a run: the data set (the calibration batch and the test       *)
(* sample), the parameters nn.Linear starts with and the parameters        *)
(* training leaves.  Tensors of any dimension are built by cycling a       *)
(* pattern.                                                                *)

Cyc(pat, k) == pat[((k - 1) % Len(pat)) + 1]
Vec(n, pat, off) == [j \in 1..n |-> Cyc(pat, off + j)]
Mat(r, c, pat) == [i \in 1..r |-> Vec(c, pat, i - 1)]

\* the parameters of MLP() before training (nn.Linear draws them uniformly
\* in [-1/sqrt(in), 1/sqrt(in)])
InitialModel ==
    [W1 |-> <<Rat(1, 8), Rat(-1, 16)>>, b1 |-> <<Rat(1, 16)>>,
     W2 |-> <<Rat(-1, 8), Rat(1, 16)>>, b2 |-> <<Rat(-1, 16)>>]

\* the parameters after training.  The last four models have hidden
\* activations far below their accumulators, which asks for a large shift.
FloatModels ==
    { [W1 |-> <<Rat(1, 2), Rat(-3, 8), Rat(1, 8)>>,
       b1 |-> <<Rat(1, 8), Rat(-3, 8)>>,
       W2 |-> <<Rat(3, 8), Rat(-1, 2), Rat(1, 8), RZero>>,
       b2 |-> <<Rat(1, 8), RZero, Rat(-1, 8)>>],
      [W1 |-> <<RInt(64), RInt(-64)>>,
       b1 |-> <<Rat(1, 4), Rat(1, 8)>>,
       W2 |-> <<Rat(1, 2), Rat(-1, 8)>>,
       b2 |-> <<Rat(1, 8), Rat(1, 4)>>],
      [W1 |-> <<RInt(256), RInt(-256)>>,
       b1 |-> <<Rat(1, 4)>>,
       W2 |-> <<Rat(-1, 2), Rat(3, 8), Rat(1, 8)>>,
       b2 |-> <<Rat(1, 16), Rat(1, 16)>>],
      [W1 |-> <<Rat(1, 4), Rat(1, 16), Rat(-3, 16)>>,
       b1 |-> <<RZero, Rat(1, 2)>>,
       W2 |-> <<Rat(-1, 8), Rat(1, 4), Rat(-3, 8)>>,
       b2 |-> <<Rat(-3, 16), Rat(-3, 16), Rat(-3, 4)>>],
      [W1 |-> <<RInt(1), RInt(-1)>>,
       b1 |-> <<Rat(1, 32)>>,
       W2 |-> <<Rat(17, 32), Rat(-1, 4)>>,
       b2 |-> <<Rat(1, 8), Rat(-1, 8)>>],
      [W1 |-> <<RInt(2), RInt(-2)>>,
       b1 |-> <<Rat(1, 512)>>,
       W2 |-> <<Rat(1, 2), Rat(-1, 4)>>,
       b2 |-> <<Rat(1, 8), Rat(-1, 8)>>],
      [W1 |-> <<RInt(16), RInt(-16)>>,
       b1 |-> <<Rat(1, 65536)>>,
       W2 |-> <<Rat(1, 2), Rat(-1, 4)>>,
       b2 |-> <<Rat(1, 8), Rat(-1, 8)>>],
      [W1 |-> <<RInt(1024), RInt(-1024)>>,
       b1 |-> <<Rat(1, 1073741824)>>,
       W2 |-> <<Rat(1, 2), Rat(-1, 4)>>,
       b2 |-> <<RZero>>] }
    \cup
    \* an all-zero second layer, whose logits are its biases
    { [W1 |-> <<Rat(-1, 2), Rat(1, 8)>>,
       b1 |-> <<Rat(-1, 8), Rat(3, 8)>>,
       W2 |-> <<RZero>>,
       b2 |-> <<b[1], b[2], b[3]>>] : b \in [1..3 -> {Rat(1, 64), Rat(1, 32)}] }

\* the first images of train_ds, InDim elements each
CalibBatches ==
    { <<Vec(InDim, <<ROne>>, 0)>>,
      <<Vec(InDim, <<Rat(3, 4), RZero>>, 0), Vec(InDim, <<RZero>>, 0)>>,
      <<Vec(InDim, <<RZero>>, 0)>> }

\* test images; the script uses the first test image labelled 3 and image
\* 0 when there is none
Samples ==
    { [img |-> Vec(InDim, <<ROne>>, 0), label |-> 3],
      [img |-> Vec(InDim, <<ROne, Rat(3, 4), RZero>>, 0), label |-> 3],
      [img |-> Vec(InDim, <<RZero, Rat(1, 4)>>, 0), label |-> 7] }

\* 2) training: what the optimizer steps leave in the model is any trained
\* model
Train ==
    /\ pc = "train"
    /\ \E m \in FloatModels :
        /\ fc1_weight' = Mat(HidDim, InDim, m.W1)
        /\ fc1_bias' = Vec(HidDim, m.b1, 0)
        /\ fc2_weight' = Mat(OutDim, HidDim, m.W2)
        /\ fc2_bias' = Vec(OutDim, m.b2, 0)
    /\ pc' = "calib"
    /\ UNCHANGED <<defined, x_flat, x0, test_label, calibVars, quant1Vars,
                   shiftVars, quant2Vars, files, x0_q, fwdVars, mmVars>>

\* a name not assigned yet holds a placeholder: <<>> for a tensor, 0.0 for a
\* scale, -1 for a shift
NoCalib ==
    /\ h1_f = <<>>
    /\ scale_x = Float64Zero /\ scale_w1 = Float64Zero /\ scale_w2 = Float64Zero
    /\ scale_h1_target = Float64Zero
NoQuant1 == W1_q = <<>> /\ b1_q = <<>>
NoShift ==
    /\ acc1_scale = Float64Zero /\ M1 = Float64Zero /\ shift1 = -1
    /\ scale_h1_eff = Float64Zero
NoQuant2 ==
    in2_scale = Float64Zero /\ W2_q = <<>> /\ b2_q = <<>> /\ shift2 = -1
NoForward == acc1_q = <<>> /\ h1_q = <<>> /\ acc2_q = <<>> /\ pred_q = 0
NoMm ==
    /\ mm_layer = 0 /\ mm_w = 0 /\ mm_x = 0 /\ mm_k = 0
    /\ mm_acc = 0 /\ mm_sum = 0 /\ mm_bias = 0 /\ mm_out = 0

\* the state after section 1: the data set is loaded and the model is
\* built; nothing of sections 4-9 is assigned yet
Init ==
    /\ pc = "train"
    /\ defined = {}
    /\ fc1_weight = Mat(HidDim, InDim, InitialModel.W1)
    /\ fc1_bias = Vec(HidDim, InitialModel.b1, 0)
    /\ fc2_weight = Mat(OutDim, HidDim, InitialModel.W2)
    /\ fc2_bias = Vec(OutDim, InitialModel.b2, 0)
    /\ x_flat \in CalibBatches
    /\ \E smp \in Samples : x0 = smp.img /\ test_label = smp.label
    /\ NoCalib /\ NoQuant1 /\ NoShift /\ NoQuant2 /\ NoForward /\ NoMm
    /\ files = <<>>
    /\ x0_q = <<>>

Next ==
    \/ Train
    \/ Calibrate
    \/ QuantizeL1
    \/ SolveShift
    \/ QuantizeL2
    \/ ExportParams
    \/ ExportSample
    \/ RunForward

Spec == Init /\ [][Next]_vars

-----------------------------------------------------------------------------
(* quantize_linear on its own: section 5 entered with any weights, biases  *)
(* and positive scales.                                                    *)

MatOff(r, c, pat, off) == [i \in 1..r |-> Vec(c, pat, off + i - 1)]

QuantWeightPatterns ==
    { <<Rat(1, 2), Rat(3, 2), Rat(5, 2), Rat(-1, 2), Rat(-3, 2), Rat(-5, 2)>>,
      <<RInt(2), RInt(200), RInt(-200), RInt(-2), RZero, Rat(11, 16)>>,
      <<Rat(255, 2), Rat(-257, 2), Rat(-259, 2), Rat(253, 2), RInt(-128),
        RInt(127)>>,
      <<RInt(1000000), RInt(-1000000), Rat(1, 1024), RInt(128), RInt(-129),
        Rat(-5, 16)>>,
      <<Rat(1, 2), Rat(5, 2), RInt(200), Rat(-3, 2), RInt(-1000), RInt(2)>> }
QuantBiasPatterns ==
    { <<Rat(1, 2), Rat(-3, 2), RInt(1000)>>, <<RZero, Rat(-3, 16)>> }
QuantWeightScales ==
    {Double(ROne), Double(Rat(1, 100)), Double(Rat(1, 4)), Double(RInt(5)),
     Double(RInt(381))}
QuantInputScales == {Double(ROne), Double(Rat(1, 127)), Double(Rat(1, 96))}

NoFloat ==
    /\ fc1_weight = <<>> /\ fc1_bias = <<>> /\ fc2_weight = <<>>
    /\ fc2_bias = <<>> /\ x_flat = <<>> /\ x0 = <<>> /\ test_label = 3

InitQuant ==
    /\ pc = "quant1"
    /\ defined = CalibNames
    /\ \E pat \in QuantWeightPatterns, off \in 0..5 :
        fc1_weight = MatOff(HidDim, InDim, pat, off)
    /\ \E pat \in QuantBiasPatterns : fc1_bias = Vec(HidDim, pat, 0)
    /\ scale_w1 \in QuantWeightScales
    /\ scale_x \in QuantInputScales
    /\ fc2_weight = <<>> /\ fc2_bias = <<>> /\ x_flat = <<>> /\ x0 = <<>>
    /\ test_label = 3
    /\ h1_f = <<>> /\ scale_w2 = Double(ROne) /\ scale_h1_target = Double(ROne)
    /\ NoQuant1 /\ NoShift /\ NoQuant2 /\ NoForward /\ NoMm
    /\ files = <<>>
    /\ x0_q = <<>>

NextQuant == QuantizeL1

SpecQuant == InitQuant /\ [][NextQuant]_vars

-----------------------------------------------------------------------------
(* The shift solver on its own: section 6 entered with any positive scales, *)
(* followed by the quantization of layer 2.                                *)

ShiftInputScales ==
    {Double(Rat(1, 127)), Double(Rat(1, 100)), Double(Rat(1, 254)), Double(ROne)}
\* the last three are the doubles nearest to 4 sqrt(2), 2 sqrt(2), sqrt(2)
ShiftWeightScales ==
    {Double(Rat(1, 5)), Double(Rat(1, 254)), Double(Rat(64, 127)),
     Double(RInt(8)), Double(ROne),
     Double(Rat(263672646, 46611179)), Double(Rat(131836323, 46611179)),
     Double(Rat(131836323, 93222358))}
ShiftTargetScales ==
    {Double(Rat(1, 100)), Double(Rat(1, 508)), Double(Rat(1, 127)),
     Double(Rat(1, 1000)), Double(Rat(3, 4)), Double(ROne)}

\* calc_scale_sym of a tensor whose largest magnitude is the float32
\* n * 2^e
ScaleOfMax(n, e) == RoundToBits(BigOf(n), BigOf(INT8_MAX), e, 53)

\* hidden activations far below the accumulator scale: with the input
\* maximum 192/255 and the weight maximum 5004805 / 2^22 the multiplier
\* is just below the doubles whose logarithm is k + 1/2, for k from 64 to
\* 69
FaintInputScale == ScaleOfMax(12632257, -24)
FaintWeightScale == ScaleOfMax(5004805, -22)
FaintTargetScales ==
    {ScaleOfMax(5371177, e) : e \in {-94, -95, -96, -97, -99}}
    \cup {ScaleOfMax(5371178, -94), ScaleOfMax(5371176, -96)}

InitShift ==
    /\ pc = "shift"
    /\ defined = CalibNames \cup Quant1Names
    /\ \/ /\ scale_x \in ShiftInputScales
          /\ scale_w1 \in ShiftWeightScales
          /\ scale_h1_target \in ShiftTargetScales
          /\ fc2_bias = Vec(OutDim, <<RZero, Rat(3, 2048)>>, 0)
       \/ /\ scale_x = FaintInputScale
          /\ scale_w1 = FaintWeightScale
          /\ scale_h1_target \in FaintTargetScales
          /\ fc2_bias = Vec(OutDim, <<RZero>>, 0)
    /\ fc2_weight = Mat(OutDim, HidDim, <<Rat(3, 8), Rat(-1, 2)>>)
    /\ scale_w2 = calc_scale_sym(fc2_weight)
    /\ fc1_weight = <<>> /\ fc1_bias = <<>> /\ x_flat = <<>> /\ x0 = <<>>
    /\ test_label = 3
    /\ h1_f = <<>>
    /\ W1_q = Mat(HidDim, InDim, <<0>>) /\ b1_q = Vec(HidDim, <<0>>, 0)
    /\ NoShift /\ NoQuant2 /\ NoForward /\ NoMm
    /\ files = <<>>
    /\ x0_q = <<>>

NextShift == SolveShift \/ QuantizeL2

SpecShift == InitShift /\ [][NextShift]_vars

-----------------------------------------------------------------------------
(* The export on its own: sections 7 and 8 entered with any int8 weights,  *)
(* int32 biases and sample.                                                *)

WordEdge ==
    <<0, 1, -1, 255, -256, 65535, 65536, -65536, -65537, 305419896,
      -305419896, INT32_MAX, INT32_MIN, INT32_MIN + 1, INT32_MAX - 1, -16>>

\* the int8 value number k, counting from -128 and wrapping after 127
ByteNo(k) == INT8_MIN + (k % 256)

ExportSeeds == 0..63

InitExport ==
    /\ pc = "export"
    /\ defined = CalibNames \cup Quant1Names \cup ShiftNames \cup Quant2Names
    /\ \E seed \in ExportSeeds :
        /\ W1_q = [i \in 1..HidDim |-> [j \in 1..InDim |->
                      ByteNo(4 * seed + (i - 1) * InDim + (j - 1))]]
        /\ W2_q = [i \in 1..OutDim |-> [j \in 1..HidDim |->
                      ByteNo(4 * seed + 128 + (i - 1) * HidDim + (j - 1))]]
        /\ b1_q = Vec(HidDim, WordEdge, seed)
        /\ b2_q = Vec(OutDim, WordEdge, seed + 7)
        /\ x0 = [i \in 1..InDim |-> Rat(ByteNo(4 * seed + i - 1), 127)]
    /\ scale_x = Double(Rat(1, 127)) /\ scale_w1 = Double(ROne)
    /\ scale_w2 = Double(ROne)
    /\ scale_h1_target = Double(ROne) /\ h1_f = <<>>
    /\ fc1_weight = <<>> /\ fc1_bias = <<>> /\ fc2_weight = <<>>
    /\ fc2_bias = <<>> /\ x_flat = <<>> /\ test_label = 3
    /\ acc1_scale = Double(Rat(1, 127)) /\ M1 = Double(Rat(1, 127))
    /\ shift1 = 0
    /\ scale_h1_eff = Double(Rat(1, 127)) /\ in2_scale = Double(Rat(1, 127))
    /\ shift2 = 0
    /\ NoForward /\ NoMm
    /\ files = <<>>
    /\ x0_q = <<>>

NextExport == ExportParams \/ ExportSample

SpecExport == InitExport /\ [][NextExport]_vars

-----------------------------------------------------------------------------
(* One accumulator of int8_mm_int32_acc at the program's dimensions: the   *)
(* INPUT terms of a row of layer 1 or the HIDDEN terms of a row of layer 2 *)
(* are added one by one, then the bias.  mm_sum is the mathematical sum.   *)

Int8Edge == {-128, -127, -1, 0, 1, 126, 127}
HiddenEdge == {0, 1, 126, 127}
Int32Edge ==
    {INT32_MIN, INT32_MIN + 1, -12845057, -1, 0, 1, 520192, INT32_MAX - 12845056,
     INT32_MAX - 1, INT32_MAX}

Terms(layer) == IF layer = 1 THEN INPUT ELSE HIDDEN

InitMm ==
    /\ pc = "mm"
    /\ defined = {}
    /\ mm_layer \in {1, 2}
    /\ mm_w \in Int8Edge
    /\ mm_x \in (IF mm_layer = 1 THEN Int8Edge ELSE HiddenEdge)
    /\ mm_k = 0 /\ mm_acc = 0 /\ mm_sum = 0 /\ mm_bias = 0 /\ mm_out = 0
    /\ NoFloat /\ NoCalib /\ NoQuant1 /\ NoShift /\ NoQuant2 /\ NoForward
    /\ files = <<>>
    /\ x0_q = <<>>

pipeVars == <<defined, floatVars, calibVars, quant1Vars, shiftVars, quant2Vars,
              files, x0_q, fwdVars>>

\* one term of the row: acc += w * x in int32
MmStep ==
    /\ pc = "mm"
    /\ mm_k < Terms(mm_layer)
    /\ mm_acc' = int8_mm_step(mm_acc, mm_w, mm_x)
    /\ mm_sum' = mm_sum + mm_w * mm_x
    /\ mm_k' = mm_k + 1
    /\ UNCHANGED <<pc, mm_layer, mm_w, mm_x, mm_bias, mm_out, pipeVars>>

\* ... + b1_q / + b2_q: the int32 bias is added to the finished row
MmAddBias ==
    /\ pc = "mm"
    /\ mm_k = Terms(mm_layer)
    /\ \E b \in Int32Edge :
        /\ mm_bias' = b
        /\ mm_out' = Add32(mm_acc, b)
    /\ pc' = "mm_done"
    /\ UNCHANGED <<mm_layer, mm_w, mm_x, mm_k, mm_acc, mm_sum, pipeVars>>

NextMm == MmStep \/ MmAddBias

SpecMm == InitMm /\ [][NextMm]_vars

-----------------------------------------------------------------------------
(* Properties.  A property compares what the program holds with the real   *)
(* numbers it stands for: the comparisons below are exact, in limbs.       *)

\* |a - b| for naturals in limbs
BigAbsDiff(a, b) == IF BigCmp(a, b) >= 0 THEN BigSub(a, b) ELSE BigSub(b, a)

\* the sign of v / s - a / b for a rational v, a double s > 0 and integers
\* a and b > 0: the sign of v.n * b - a * v.d * s
RatioCmp(v, s, a, b) ==
    IF v.n >= 0 /\ a <= 0 THEN (IF v.n = 0 /\ a = 0 THEN 0 ELSE 1)
    ELSE IF v.n <= 0 /\ a >= 0 THEN -1
    ELSE LET X == BigMul(BigOf(Abs(v.n)), BigOf(b))
             Y == BigMul(BigMul(BigOf(Abs(a)), BigOf(v.d)), s.m)
             c == IF s.e >= 0 THEN BigCmp(X, BigShl(Y, s.e))
                  ELSE BigCmp(BigShl(X, -s.e), Y)
         IN  IF v.n > 0 THEN c ELSE -c

\* floor(a / 2^s) for an int32 a, in closed form
FloorShift(a, s) ==
    IF s >= 31 THEN (IF a < 0 THEN -1 ELSE 0) ELSE a \div Pow2(s)

\* C1: after forward_quantized every hidden value is
\* max(0, min(127, max(-128, floor(acc1 / 2^shift1)))): the shift keeps the
\* sign (a negative accumulator shifts to a negative value), the clamp
\* follows the shift, ReLU follows the clamp, and h1 lies in [0,127].
C1_RequantShiftClampRelu ==
    pc = "done" =>
        /\ shift1 >= 0
        /\ \A i \in DOMAIN acc1_q :
            LET f == FloorShift(acc1_q[i], shift1)
                c == IF f < -128 THEN -128 ELSE IF f > 127 THEN 127 ELSE f
            IN  /\ h1_q[i] = (IF c > 0 THEN c ELSE 0)
                /\ h1_q[i] \in 0..127
                /\ (acc1_q[i] < 0 => h1_q[i] = 0)

\* a run with a positive shift in which a negative accumulator gives 0 and
\* a positive accumulator, still above 127 after the shift, gives 127
C1_Witness ==
    /\ pc = "done"
    /\ shift1 > 0
    /\ \E i \in DOMAIN acc1_q : acc1_q[i] < 0 /\ h1_q[i] = 0
    /\ \E i \in DOMAIN acc1_q :
        FloorShift(acc1_q[i], shift1) > 127 /\ h1_q[i] = 127

\* C2: the prediction is the 0-based index of a maximal entry of acc2, and
\* no entry before it is as large (ties go to the lowest index).
C2_ArgmaxFirstOccurrence ==
    pc = "done" =>
        /\ pred_q \in 0..(Len(acc2_q) - 1)
        /\ \A j \in DOMAIN acc2_q : acc2_q[j] <= acc2_q[pred_q + 1]
        /\ \A j \in 1..pred_q : acc2_q[j] < acc2_q[pred_q + 1]

\* a run whose maximum is shared by the predicted index, which is not the
\* first entry, and a later one
C2_Witness ==
    /\ pc = "done"
    /\ pred_q >= 1
    /\ \E j \in DOMAIN acc2_q : j > pred_q + 1 /\ acc2_q[j] = acc2_q[pred_q + 1]

\* bq is the rounded quotient of the bias b by the real product s1 * s2 of
\* the doubles s1, s2 > 0, up to the rounding of the float32 division:
\* |bq - b / (s1 s2)| <= 1/2 + (|bq| + 1) / 2^22
BiasAtScale(bq, b, s1, s2) ==
    LET P == BigMul(BigMul(s1.m, s2.m), BigOf(b.d))
        E == s1.e + s2.e
        dS == IF E > 0 THEN BigShl(P, E) ELSE P
        A == BigShl(BigMul(BigOf(Abs(bq)), dS), 23)
        B == BigShl(BigOf(Abs(b.n)), IF E < 0 THEN 23 - E ELSE 23)
        diff == IF bq = 0 \/ b.n = 0 \/ (bq < 0) = (b.n < 0)
                THEN BigAbsDiff(A, B) ELSE BigAdd(A, B)
        bound == BigMul(dS, BigAdd(BigOf(Pow2(22) + 2),
                                   BigShl(BigOf(Abs(bq)), 1)))
    IN  BigCmp(diff, bound) <= 0

\* x is the double nearest to a * b / 2^shift for doubles a, b > 0: x has a
\* 53-bit significand and is within half a unit of its last place of the
\* real quotient
IsScaledProduct(x, a, b, shift) ==
    LET P == BigMul(a.m, b.m)
        k == (x.e + shift) - (a.e + b.e)
    IN  /\ BigBitLen(x.m) = 53
        /\ k >= 0
        /\ BigCmp(BigShl(BigAbsDiff(BigShl(x.m, k), P), 1),
                  BigShl(BigOne, k)) <= 0

\* C3: layer 1 is quantized with input scale scale_x while shift1 is still
\* unresolved; layer 2 is quantized only once shift1 is resolved, its input
\* scale is (scale_x * scale_w1) / 2^shift1, and b2_q is the bias at that
\* input scale.
C3_Layer2UsesEffectiveScale ==
    /\ pc = "shift" => ("W1_q" \in defined /\ "shift1" \notin defined)
    /\ "shift1" \in defined => "W1_q" \in defined
    /\ "W1_q" \in defined =>
        \A i \in DOMAIN b1_q :
            BiasAtScale(b1_q[i], fc1_bias[i], scale_x, scale_w1)
    /\ "W2_q" \in defined =>
        /\ "shift1" \in defined
        /\ IsScaledProduct(in2_scale, scale_x, scale_w1, shift1)
        /\ \A i \in DOMAIN b2_q :
            BiasAtScale(b2_q[i], fc2_bias[i], in2_scale, scale_w2)

\* layer 2 quantized after a positive shift, where the realized scale
\* differs from the target scale and b2_q is not the bias at the target
\* scale
C3_Witness ==
    /\ "W2_q" \in defined
    /\ shift1 > 0
    /\ in2_scale # scale_h1_target
    /\ \E i \in DOMAIN b2_q :
        ~BiasAtScale(b2_q[i], fc2_bias[i], scale_h1_target, scale_w2)

\* M is the double nearest to a / t for doubles a, t > 0
IsQuotient(M, a, t) ==
    LET j == a.e - (M.e + t.e)
    IN  /\ BigBitLen(M.m) = 53
        /\ j >= 0
        /\ BigCmp(BigShl(BigAbsDiff(BigMul(M.m, t.m), BigShl(a.m, j)), 1),
                  t.m) <= 0

\* the sign of M^2 * c - 2^j * d for a double M > 0, naturals c, d > 0 in
\* limbs and an integer j
SquareCmp(M, c, j, d) ==
    LET sq == BigMul(BigMul(M.m, M.m), c)
        t == j - 2 * M.e
    IN  IF t >= 0 THEN BigCmp(sq, BigShl(d, t)) ELSE BigCmp(BigShl(sq, -t), d)

\* the logarithm of a double is known to about 2^-48 of its argument; the
\* bounds on a rounded logarithm leave 2^-40 of room
TolDen == BigShl(BigOne, 40)
TolUp == BigAdd(TolDen, BigOne)
TolDown == BigSub(TolDen, BigOne)

\* C4: the shift is a non-negative integer, max(0, round(log2(M))) with
\* M = S_acc / S_target: it is 0 for every M in (0,1] and for M up to
\* sqrt(2), and otherwise the k with 2^(k - 1/2) <= M <= 2^(k + 1/2); the
\* effective scale is S_acc / 2^shift; S_acc = 0.002, S_target = 0.01 gives
\* M = 0.2, shift 0 and effective scale S_acc; shift2 is 0.
C4_ShiftNonNegative ==
    /\ "shift1" \in defined =>
        /\ shift1 \in Nat
        /\ IsScaledProduct(acc1_scale, scale_x, scale_w1, 0)
        /\ IsQuotient(M1, acc1_scale, scale_h1_target)
        /\ SquareCmp(M1, BigOne, 0, BigOne) <= 0 => shift1 = 0
        /\ shift1 = 0 => SquareCmp(M1, TolDen, 1, TolUp) <= 0
        /\ shift1 > 0 =>
            /\ SquareCmp(M1, TolDen, 2 * shift1 - 1, TolDown) >= 0
            /\ SquareCmp(M1, TolDen, 2 * shift1 + 1, TolUp) <= 0
        /\ scale_h1_eff.m = acc1_scale.m
        /\ scale_h1_eff.e + shift1 = acc1_scale.e
        /\ (acc1_scale = Double(Rat(2, 1000))
                /\ scale_h1_target = Double(Rat(1, 100))) =>
              /\ M1 = Double(Rat(1, 5))
              /\ shift1 = 0
              /\ scale_h1_eff = Double(Rat(2, 1000))
    /\ "shift2" \in defined => shift2 = 0

\* the example of the specification: S_acc = 0.002, S_target = 0.01, solved
\* to shift 0, and layer 2 quantized with shift2 set
C4_Witness ==
    /\ "shift1" \in defined /\ "shift2" \in defined
    /\ acc1_scale = Double(Rat(2, 1000))
    /\ scale_h1_target = Double(Rat(1, 100))
    /\ SquareCmp(M1, BigOne, 0, BigOne) < 0
    /\ shift1 = 0

\* q is the real quotient v / s rounded half to even and clamped to int8:
\* q is in [-128,127]; unless the clamp holds q at -128, v / s is not more
\* than a half below q, and exactly a half only for an even q; and the same
\* above q unless the clamp holds q at 127
IsRoundClamp(q, v, s) ==
    /\ q \in -128..127
    /\ \/ q = -128
       \/ RatioCmp(v, s, 2 * q - 1, 2) > 0
       \/ RatioCmp(v, s, 2 * q - 1, 2) = 0 /\ q % 2 = 0
    /\ \/ q = 127
       \/ RatioCmp(v, s, 2 * q + 1, 2) < 0
       \/ RatioCmp(v, s, 2 * q + 1, 2) = 0 /\ q % 2 = 0

\* C5: every quantized weight is clamp(round(W / weight_scale), -128, 127)
\* with round half to even (0.5 -> 0, 1.5 -> 2, 2.5 -> 2, -0.5 -> 0,
\* -1.5 -> -2; 0.4 -> 0), and lies in [-128,127].
C5_WeightRoundHalfEvenClamp ==
    "W1_q" \in defined =>
        \A i \in DOMAIN W1_q : \A j \in DOMAIN W1_q[i] :
            LET v == fc1_weight[i][j]
                q == W1_q[i][j]
            IN  /\ q \in -128..127
                /\ IsRoundClamp(q, v, scale_w1)
                /\ RatioCmp(v, scale_w1, 1, 2) = 0 => q = 0
                /\ RatioCmp(v, scale_w1, 3, 2) = 0 => q = 2
                /\ RatioCmp(v, scale_w1, 5, 2) = 0 => q = 2
                /\ RatioCmp(v, scale_w1, -1, 2) = 0 => q = 0
                /\ RatioCmp(v, scale_w1, -3, 2) = 0 => q = -2
                /\ RatioCmp(v, scale_w1, 2, 5) = 0 => q = 0

\* one weight matrix holding the ratios 0.5 and 2.5 and a ratio above the
\* int8 range, quantized to 0, 2 and 127
C5_Witness ==
    /\ "W1_q" \in defined
    /\ \E i \in DOMAIN W1_q : \E j \in DOMAIN W1_q[i] :
        RatioCmp(fc1_weight[i][j], scale_w1, 1, 2) = 0 /\ W1_q[i][j] = 0
    /\ \E i \in DOMAIN W1_q : \E j \in DOMAIN W1_q[i] :
        RatioCmp(fc1_weight[i][j], scale_w1, 5, 2) = 0 /\ W1_q[i][j] = 2
    /\ \E i \in DOMAIN W1_q : \E j \in DOMAIN W1_q[i] :
        RatioCmp(fc1_weight[i][j], scale_w1, 128, 1) > 0 /\ W1_q[i][j] = 127

\* |q * s - v| <= s / 2 for the quantized value q of v at scale s
WithinHalfStep(q, v, s) ==
    RatioCmp(v, s, 2 * q - 1, 2) >= 0 /\ RatioCmp(v, s, 2 * q + 1, 2) <= 0

\* -128.5 <= v / s <= 127.5: rounding v / s does not leave the int8 range
\* by more than the rounding itself
InInt8Range(v, s) ==
    RatioCmp(v, s, -257, 2) >= 0 /\ RatioCmp(v, s, 255, 2) <= 0

\* every value the run has quantized with round-then-clamp, with its source
\* value and scale: the weights of both layers and the sample
Quantized ==
    {[q |-> W1_q[i][j], v |-> fc1_weight[i][j], s |-> scale_w1] :
        i \in DOMAIN W1_q, j \in 1..InDim}
    \cup {[q |-> W2_q[i][j], v |-> fc2_weight[i][j], s |-> scale_w2] :
        i \in DOMAIN W2_q, j \in 1..HidDim}
    \cup {[q |-> x0_q[i], v |-> x0[i], s |-> scale_x] : i \in DOMAIN x0_q}

\* C6, as claimed: dequantizing any quantized value recovers the source
\* value within half a step, |q * s - v| <= 0.5 * s.
C6_HalfStepForAll == \A e \in Quantized : WithinHalfStep(e.q, e.v, e.s)

\* C6, amended: the half-step bound holds for every value whose ratio v / s
\* lies in [-128.5, 127.5]; beyond it the clamp saturates.
C6_HalfStepInRange ==
    \A e \in Quantized : InInt8Range(e.v, e.s) => WithinHalfStep(e.q, e.v, e.s)

\* the sample and both layers quantized, with a value that was rounded up,
\* a value that was rounded down and a value that needed no rounding
C6_Witness ==
    /\ "x0_q" \in defined
    /\ \E e \in Quantized :
        InInt8Range(e.v, e.s) /\ RatioCmp(e.v, e.s, e.q, 1) < 0 /\ e.q > 0
    /\ \E e \in Quantized :
        InInt8Range(e.v, e.s) /\ RatioCmp(e.v, e.s, e.q, 1) > 0 /\ e.q > 0
    /\ \E e \in Quantized : RatioCmp(e.v, e.s, e.q, 1) = 0 /\ e.q > 0

\* the value of a hex digit, -1 for any other character
DigitValue(c) ==
    IF \E k \in 0..15 : HexDigit[k + 1] = c
    THEN CHOOSE k \in 0..15 : HexDigit[k + 1] = c
    ELSE -1

\* a two-digit token read as a two's-complement byte
ReadByte(t) ==
    LET u == 16 * DigitValue(t[1]) + DigitValue(t[2])
    IN  IF u >= 128 THEN u - 256 ELSE u

\* an eight-digit token read as a two's-complement 32-bit word
RECURSIVE ReadDigits(_, _)
ReadDigits(t, k) ==
    IF k = 1 THEN (IF DigitValue(t[1]) >= 8 THEN DigitValue(t[1]) - 16
                   ELSE DigitValue(t[1]))
    ELSE 16 * ReadDigits(t, k - 1) + DigitValue(t[k])
ReadWord(t) == ReadDigits(t, 8)

IsHexToken(t, width) ==
    Len(t) = width /\ \A k \in 1..width : DigitValue(t[k]) >= 0

ByteTokenOf(v) ==
    <<HexDigit[((v % 256) \div 16) + 1], HexDigit[(v % 16) + 1]>>

\* digit k of the eight is bits 32-4k .. 35-4k of v mod 2^32
WordTokenOf(v) ==
    [k \in 1..8 |-> HexDigit[((v \div Pow2(4 * (8 - k))) % 16) + 1]]

ByteTokenOk(t, v) ==
    IsHexToken(t, 2) /\ t = ByteTokenOf(v) /\ ReadByte(t) = v
WordTokenOk(t, v) ==
    IsHexToken(t, 8) /\ t = WordTokenOf(v) /\ ReadWord(t) = v

ByteFileOk(name, arr2d) ==
    name \in DOMAIN files =>
        /\ Len(files[name]) = Len(arr2d)
        /\ \A i \in DOMAIN arr2d :
            /\ Len(files[name][i]) = Len(arr2d[i])
            /\ \A j \in DOMAIN arr2d[i] :
                ByteTokenOk(files[name][i][j], arr2d[i][j])

WordFileOk(name, arr1d) ==
    name \in DOMAIN files =>
        /\ Len(files[name]) = Len(arr1d)
        /\ \A i \in DOMAIN arr1d :
            files[name][i] = <<WordTokenOf(arr1d[i])>>
            /\ WordTokenOk(files[name][i][1], arr1d[i])

\* C7: every exported int8 value (weights, sample) is the two lowercase hex
\* digits of v mod 256, every int32 bias the eight lowercase hex digits of
\* b mod 2^32, and reading a token back as a two's-complement number of
\* its width returns the value.
C7_HexTokensRoundTrip ==
    /\ ByteFileOk("W1.mem", W1_q)
    /\ ByteFileOk("W2.mem", W2_q)
    /\ WordFileOk("b1.mem", b1_q)
    /\ WordFileOk("b2.mem", b2_q)
    /\ "sample_input.mem" \in DOMAIN files =>
        /\ Len(files["sample_input.mem"]) = Len(x0_q)
        /\ \A i \in DOMAIN x0_q :
            /\ Len(files["sample_input.mem"][i]) = 1
            /\ ByteTokenOk(files["sample_input.mem"][i][1], x0_q[i])

\* all files written, with the weight -1 exported as ff, a negative bias
\* exported with a leading digit of 8..f and a negative sample byte
C7_Witness ==
    /\ pc = "forward"
    /\ \E i \in DOMAIN W1_q : \E j \in DOMAIN W1_q[i] :
        W1_q[i][j] = -1 /\ files["W1.mem"][i][j] = <<"f", "f">>
    /\ \E i \in DOMAIN b1_q :
        b1_q[i] < 0 /\ DigitValue(files["b1.mem"][i][1][1]) >= 8
    /\ \E i \in DOMAIN x0_q :
        x0_q[i] < 0 /\ DigitValue(files["sample_input.mem"][i][1][1]) >= 8

\* C9: a row of int8 x int8 products never leaves the int32 range at the
\* program's dimensions (at most 784*128*128 in layer 1, 32*128*127 in
\* layer 2), so the int32 accumulator equals the mathematical sum, and the
\* biased accumulator equals sum + bias unless that addition leaves the
\* int32 range, in which case it is sum + bias -/+ 2^32.
C9_OnlyBiasAddCanWrap ==
    /\ INPUT * 128 * 128 <= INT32_MAX
    /\ HIDDEN * 128 * 127 <= INT32_MAX
    /\ pc \in {"mm", "mm_done"} =>
        /\ mm_acc = mm_sum
        /\ mm_layer = 1 => Abs(mm_sum) <= mm_k * 128 * 128
        /\ mm_layer = 2 => Abs(mm_sum) <= mm_k * 128 * 127
    /\ pc = "mm_done" =>
        LET over == mm_bias > 0 /\ mm_sum > INT32_MAX - mm_bias
            under == mm_bias < 0 /\ mm_sum < INT32_MIN - mm_bias
        IN  /\ (~over /\ ~under) => mm_out = mm_sum + mm_bias
            /\ over => mm_out - INT32_MIN = (mm_sum - (INT32_MAX - mm_bias)) - 1
            /\ under => INT32_MAX - mm_out = ((INT32_MIN - mm_bias) - mm_sum) - 1

\* a full row of layer 1 at the largest product, 784 * 128 * 128, pushed
\* over the int32 range by the bias
C9_Witness ==
    /\ pc = "mm_done"
    /\ mm_layer = 1
    /\ mm_k = INPUT
    /\ mm_sum = INPUT * 128 * 128
    /\ mm_bias > 0 /\ mm_out < 0

\* the ratio W / weight_scale the program holds: the float32 quotient
RatioOf(w, scale) == Float32Value(DivByScalar(w, scale))

\* |q - v / s| <= 1/2 + 2^-15 for the real quotient v / s: q is v / s
\* rounded, up to the rounding of the float32 division
RoundsTo(q, v, s) ==
    /\ RatioCmp(v, s, Pow2(16) * q - Pow2(15) - 2, Pow2(16)) >= 0
    /\ RatioCmp(v, s, Pow2(16) * q + Pow2(15) + 2, Pow2(16)) <= 0

\* the consequences the claim draws for one layer: the clamp changes no
\* weight (the weight is the rounded ratio itself, within [-127,127]),
\* -128 is never produced, a tensor that is not all zero has a weight of
\* magnitude 127, an all-zero tensor has scale 1.0
NeverSaturates(Wq, Wf, scale) ==
    /\ \A i \in DOMAIN Wq : \A j \in DOMAIN Wq[i] :
        /\ Wq[i][j] = RoundFloat32(DivByScalar(Wf[i][j], scale))
        /\ Wq[i][j] \in -127..127
        /\ Wq[i][j] # -128
        /\ RoundsTo(Wq[i][j], Wf[i][j], scale)
    /\ (\E v \in Entries(Wf) : v # RZero) =>
            \E i \in DOMAIN Wq : \E j \in DOMAIN Wq[i] : Abs(Wq[i][j]) = 127
    /\ (\A v \in Entries(Wf) : v = RZero) => scale = Double(ROne)

\* every ratio of the layer is within lim of zero
RatiosWithin(Wf, scale, lim) ==
    \A v \in Entries(Wf) : RLe(RAbs(RatioOf(v, scale)), lim)

\* C10, as claimed: with weight_scale = calc_scale_sym(W) every ratio
\* W / weight_scale lies in [-127,127], so the clamp changes no weight, -128
\* is never produced, and a tensor that is not all zero has a weight of
\* magnitude 127.
C10_RatiosWithin127 ==
    /\ "W1_q" \in defined =>
        /\ RatiosWithin(fc1_weight, scale_w1, RInt(127))
        /\ NeverSaturates(W1_q, fc1_weight, scale_w1)
    /\ "W2_q" \in defined =>
        /\ RatiosWithin(fc2_weight, scale_w2, RInt(127))
        /\ NeverSaturates(W2_q, fc2_weight, scale_w2)

\* one float32 step above 127: 127 + 2^-17
OneStepAbove127 == Rat(127 * Pow2(17) + 1, Pow2(17))

\* C10, amended: with weight_scale = calc_scale_sym(W) every ratio
\* W / weight_scale lies in [-127,127] or one float32 step beyond it (the
\* scale is a rounded quotient), so the ratio rounds to an integer in
\* [-127,127]: the clamp changes no weight, -128 is never produced, and a
\* tensor that is not all zero has a weight of magnitude 127.
C10_WeightsNeverSaturate ==
    /\ "W1_q" \in defined =>
        /\ RatiosWithin(fc1_weight, scale_w1, OneStepAbove127)
        /\ NeverSaturates(W1_q, fc1_weight, scale_w1)
    /\ "W2_q" \in defined =>
        /\ RatiosWithin(fc2_weight, scale_w2, OneStepAbove127)
        /\ NeverSaturates(W2_q, fc2_weight, scale_w2)

\* both layers quantized: layer 1 with its largest weight negative, mapped
\* to -127, and a layer 2 whose largest ratio is one step above 127 and is
\* mapped to 127
C10_Witness ==
    /\ "W2_q" \in defined
    /\ \E i \in DOMAIN W1_q : \E j \in DOMAIN W1_q[i] : W1_q[i][j] = -127
    /\ \E i \in DOMAIN W2_q : \E j \in DOMAIN W2_q[i] :
        /\ RatioOf(fc2_weight[i][j], scale_w2) = OneStepAbove127
        /\ W2_q[i][j] = 127

====
